---- MODULE Spec2Model ----
(***************************************************************************)
(* A model of the Gemini function-calling client of src/src/main.rs: the   *)
(* content model (Part, Content, FunctionDeclaration), the serde wire      *)
(* codec (Serialize of the request types, Deserialize of the response      *)
(* types), the transport port (SimpleHttpClient::post) and the three       *)
(* public operations of GeminiClient.                                      *)
(*                                                                         *)
(* JSON text is modelled by the JSON value it denotes: a one-field record  *)
(* named after the value's type (str, num, null, arr, obj), and            *)
(* [invalid |-> TRUE] for a body that is not JSON at all.  An object is a  *)
(* function from its keys to JSON values, so key presence is DOMAIN.  Key  *)
(* order and whitespace of the text are not modelled.                      *)
(***************************************************************************)
EXTENDS Integers, Sequences, FiniteSets, TLC

VARIABLES
    client,        \* the GeminiClient: api_key, base_url, system_instruction, functions
    conversation,  \* the caller's Vec<Content> handed to continue_with_function_result
    op,            \* the step that ran last ("none" before the first)
    wire,          \* what the network did with the last operation's request
    request,       \* the GenerateContentRequest the last operation built
    url,           \* the url the last operation posted to
    body,          \* the request body the last operation handed to the transport
    sends,         \* number of SimpleHttpClient::post calls the last operation made
    decodes,       \* number of serde_json::from_str calls the last operation made
    result,        \* what the last operation returned
    call,          \* the arguments the last operation was called with
    codecOp,       \* codec specification: "encode", "decode" or "roundtrip"
    codecIn,       \* codec specification: the value last encoded or decoded
    codecOut       \* codec specification: what the codec produced for it

vars == <<client, conversation, op, wire, request, url, body, sends, decodes, result, call,
          codecOp, codecIn, codecOut>>

engineVars ==
    <<client, conversation, op, wire, request, url, body, sends, decodes, result, call>>

codecVars == <<codecOp, codecIn, codecOut>>

\* ------------------------------------------------------------------ bounds
MaxConv == 3

MaxParts == 2

SeqsUpTo(S, n) == UNION {[1..k -> S] : k \in 0..n}

\* ------------------------------------------------- Result and Option values
Ok(v) == [ok |-> TRUE, val |-> v]

Err(kind, msg) == [ok |-> FALSE, err |-> kind, msg |-> msg]

None == [some |-> FALSE]

Some(v) == [some |-> TRUE, val |-> v]

\* ------------------------------------------------------------- JSON values
JStr(s) == [str |-> s]

JNum(n) == [num |-> n]

JNull == [null |-> TRUE]

JArr(s) == [arr |-> s]

JObj(f) == [obj |-> f]

NotJson == [invalid |-> TRUE]

IsStr(v) == "str" \in DOMAIN v

IsNull(v) == "null" \in DOMAIN v

IsArr(v) == "arr" \in DOMAIN v

IsObj(v) == "obj" \in DOMAIN v

Has(v, k) == IsObj(v) /\ k \in DOMAIN v.obj

\* ----------------------------------------------------------- content model
TextPart(s) == [kind |-> "Text", text |-> s]

FunctionCallPart(fc) == [kind |-> "FunctionCall", function_call |-> fc]

FunctionResponsePart(fr) == [kind |-> "FunctionResponse", function_response |-> fr]

FunctionCall(name, args) == [name |-> name, args |-> args]

FunctionResponse(name, response) == [name |-> name, response |-> response]

Content(role, parts) == [role |-> role, parts |-> parts]

SystemInstruction(parts) == [parts |-> parts]

Tool(decls) == [function_declarations |-> decls]

REAL_HOST == "generativelanguage.googleapis.com"

\* The instruction the client falls back to (the Japanese text "you are a
\* kind assistant" of the source, written in ASCII here).
DefaultInstruction == SystemInstruction(<<TextPart("kind-assistant")>>)

\* ------------------------------------------------ Serialize (request side)
SerFunctionCall(fc) == JObj([name |-> JStr(fc.name), args |-> fc.args])

SerFunctionResponse(fr) == JObj([name |-> JStr(fr.name), response |-> fr.response])

\* #[serde(untagged)] enum Part: the variant's fields alone, under the renamed key.
SerPart(p) ==
    CASE p.kind = "Text" -> JObj([text |-> JStr(p.text)])
      [] p.kind = "FunctionCall" ->
            JObj([functionCall |-> SerFunctionCall(p.function_call)])
      [] p.kind = "FunctionResponse" ->
            JObj([functionResponse |-> SerFunctionResponse(p.function_response)])

SerContent(c) == JObj([role |-> JStr(c.role), parts |-> JArr([i \in 1..Len(c.parts) |-> SerPart(c.parts[i])])])

SerSystemInstruction(si) == JObj([parts |-> JArr([i \in 1..Len(si.parts) |-> SerPart(si.parts[i])])])

\* "enum" is skipped when enum_values is None.
SerPropertySchema(ps) ==
    JObj([type |-> JStr(ps.property_type), description |-> JStr(ps.description)]
         @@ (IF ps.enum_values.some
             THEN [enum |-> JArr([i \in 1..Len(ps.enum_values.val) |-> JStr(ps.enum_values.val[i])])]
             ELSE <<>>))

SerFunctionParameters(fp) ==
    JObj([type |-> JStr(fp.param_type),
          properties |-> JObj([k \in DOMAIN fp.properties |->
                                  SerPropertySchema(fp.properties[k])]),
          required |-> JArr([i \in 1..Len(fp.required) |-> JStr(fp.required[i])])])

SerFunctionDeclaration(fd) ==
    JObj([name |-> JStr(fd.name), description |-> JStr(fd.description),
          parameters |-> SerFunctionParameters(fd.parameters)])

\* struct Tool carries no serde rename: the field name is the key.
SerTool(t) ==
    JObj([function_declarations |-> JArr([i \in 1..Len(t.function_declarations) |-> SerFunctionDeclaration(t.function_declarations[i])])])

\* struct GenerateContentRequest carries no serde rename either; "tools" is
\* skipped when the option is None.
SerGenerateContentRequest(r) ==
    JObj([system_instruction |-> SerSystemInstruction(r.system_instruction),
          contents |-> JArr([i \in 1..Len(r.contents) |-> SerContent(r.contents[i])])]
         @@ (IF r.tools.some
             THEN [tools |-> JArr([i \in 1..Len(r.tools.val) |-> SerTool(r.tools.val[i])])]
             ELSE <<>>))

\* serde_json::to_string: these types hold only strings, vectors, string-keyed
\* maps and serde_json::Value, so serialization has no failing case.
to_string(r) == Ok(SerGenerateContentRequest(r))

\* ---------------------------------------------- Deserialize (response side)
AllOk(rs) == \A i \in 1..Len(rs) : rs[i].ok

Vals(rs) == [i \in 1..Len(rs) |-> rs[i].val]

\* struct FunctionCall {name: String, args: Value}: both fields required.
DeFunctionCall(v) ==
    IF /\ Has(v, "name") /\ IsStr(v.obj.name)
       /\ Has(v, "args")
    THEN Ok(FunctionCall(v.obj.name.str, v.obj.args))
    ELSE Err("serde", "invalid FunctionCall")

\* #[serde(untagged)] enum ResponsePart: the variants are tried in declaration
\* order, Text then FunctionCall; keys a variant does not name are ignored.
DeResponsePart(v) ==
    LET fc == DeFunctionCall(v.obj.functionCall)
    IN  IF Has(v, "text") /\ IsStr(v.obj.text)
        THEN Ok(TextPart(v.obj.text.str))
        ELSE IF Has(v, "functionCall") /\ fc.ok
        THEN Ok(FunctionCallPart(fc.val))
        ELSE Err("serde", "data did not match any variant of untagged enum ResponsePart")

DeResponseContent(v) ==
    LET parts == [i \in 1..Len(v.obj.parts.arr) |-> DeResponsePart(v.obj.parts.arr[i])]
    IN  IF Has(v, "parts") /\ IsArr(v.obj.parts) /\ AllOk(parts)
        THEN Ok([parts |-> Vals(parts)])
        ELSE Err("serde", "invalid ResponseContent")

\* finish_reason: Option<String>, renamed finishReason: absent or null is None.
DeFinishReason(v) ==
    IF ~Has(v, "finishReason") THEN Ok(None)
    ELSE IF IsNull(v.obj.finishReason) THEN Ok(None)
    ELSE IF IsStr(v.obj.finishReason) THEN Ok(Some(v.obj.finishReason.str))
    ELSE Err("serde", "invalid type for finishReason")

DeCandidate(v) ==
    LET content == DeResponseContent(v.obj.content)
        finish == DeFinishReason(v)
    IN  IF Has(v, "content") /\ content.ok /\ finish.ok
        THEN Ok([content |-> content.val, finish_reason |-> finish.val])
        ELSE Err("serde", "invalid Candidate")

DeGenerateContentResponse(v) ==
    LET candidates == [i \in 1..Len(v.obj.candidates.arr) |-> DeCandidate(v.obj.candidates.arr[i])]
    IN  IF Has(v, "candidates") /\ IsArr(v.obj.candidates) /\ AllOk(candidates)
        THEN Ok([candidates |-> Vals(candidates)])
        ELSE Err("serde", "invalid GenerateContentResponse")

\* serde_json::from_str::<GenerateContentResponse>
from_str(text) ==
    IF ~IsObj(text) THEN Err("serde", "not a JSON object")
    ELSE DeGenerateContentResponse(text)

\* --------------------------------------------------------- transport port
\* What the network does with one request: the send fails, the read of the
\* response body fails, or the whole body arrives.
NetSendFails == [send |-> FALSE]

NetReadFails == [send |-> TRUE, read |-> FALSE]

NetDelivers(text) == [send |-> TRUE, read |-> TRUE, text |-> text]

\* SimpleHttpClient::post: one request, no retry.
post(u, api_key, b, net) ==
    IF ~net.send THEN Err("NetworkError", "Request failed")
    ELSE IF ~net.read THEN Err("NetworkError", "Response read failed")
    ELSE Ok(net.text)

\* ------------------------------------------------------------ constructors
BaseUrl == <<"https://", REAL_HOST, "/v1beta">>

\* GeminiClient::new: the key comes from the environment (None when unset).
new(env_key) ==
    IF ~env_key.some THEN Err("ApiKeyNotFound", "GEMINI_API_KEY environment variable not found")
    ELSE Ok([api_key |-> env_key.val, base_url |-> BaseUrl,
             system_instruction |-> DefaultInstruction, functions |-> <<>>])

new_with_instructions(api_key, system_instruction, functions) ==
    [api_key |-> api_key, base_url |-> BaseUrl,
     system_instruction |-> system_instruction, functions |-> functions]

with_api_key(api_key) ==
    [api_key |-> api_key, base_url |-> BaseUrl,
     system_instruction |-> DefaultInstruction, functions |-> <<>>]

\* ------------------------------------------------------------- operations
\* generate_content with a retry: a failed post is sent a second time.
generate_content_retrying(self, req, net) ==
    LET u == self.base_url \o <<"/models/gemini-1.5-flash:generateContent">>
        ser == to_string(req)
        posted == post(u, self.api_key, ser.val, net)
        parsed == from_str(posted.val)
    IN  IF ~posted.ok
        THEN [res |-> post(u, self.api_key, ser.val, net),
              url |-> u, body |-> ser.val, sends |-> 2, decodes |-> 0]
        ELSE [res |-> IF parsed.ok THEN Ok(parsed.val)
                      ELSE Err("ParseError", "Deserialization error"),
              url |-> u, body |-> ser.val, sends |-> 1, decodes |-> 1]

\* GeminiClient::generate_content.  The record returned holds, besides the
\* Result (res), what the call did: the url and body it posted and how many
\* times it called post and from_str.
generate_content(self, req, net) ==
    LET u == self.base_url \o <<"/models/gemini-1.5-flash:generateContent">>
        ser == to_string(req)
    IN  IF ~ser.ok
        THEN [res |-> Err("ParseError", "Serialization error"),
              url |-> u, body |-> NotJson, sends |-> 0, decodes |-> 0]
        ELSE LET posted == post(u, self.api_key, ser.val, net)
             IN  IF ~posted.ok
                 THEN [res |-> posted,
                       url |-> u, body |-> ser.val, sends |-> 1, decodes |-> 0]
                 ELSE LET parsed == from_str(posted.val)
                      IN  [res |-> IF parsed.ok THEN Ok(parsed.val)
                                   ELSE Err("ParseError", "Deserialization error"),
                           url |-> u, body |-> ser.val, sends |-> 1, decodes |-> 1]

\* generate_text, the request it builds.
generate_text_request(self, prompt) ==
    [system_instruction |-> SystemInstruction(<<TextPart("kind-assistant")>>),
     contents |-> <<Content("user", <<TextPart(prompt)>>)>>,
     tools |-> None]

\* first_text searching every part of every candidate for a text.
any_text(response) ==
    LET texts == {<<i, j>> \in (1..Len(response.candidates)) \X (1..8) :
                     /\ j <= Len(response.candidates[i].content.parts)
                     /\ response.candidates[i].content.parts[j].kind = "Text"}
        pick == CHOOSE t \in texts : \A o \in texts :
                    t[1] < o[1] \/ (t[1] = o[1] /\ t[2] <= o[2])
    IN  IF texts # {}
        THEN Ok(response.candidates[pick[1]].content.parts[pick[2]].text)
        ELSE Err("ApiError", "No text response found")

\* generate_text, what it makes of a decoded response.
first_text(response) ==
    IF /\ Len(response.candidates) > 0
       /\ Len(response.candidates[1].content.parts) > 0
       /\ response.candidates[1].content.parts[1].kind = "Text"
    THEN Ok(response.candidates[1].content.parts[1].text)
    ELSE Err("ApiError", "No text response found")

generate_text(self, prompt, net) ==
    LET req == generate_text_request(self, prompt)
        g == generate_content(self, req, net)
    IN  [g EXCEPT !.res = IF g.res.ok THEN first_text(g.res.val) ELSE g.res]
        @@ [request |-> req]

generate_with_functions_request(self, prompt) ==
    [system_instruction |-> self.system_instruction,
     contents |-> <<Content("user", <<TextPart(prompt)>>)>>,
     tools |-> Some(<<Tool(self.functions)>>)]

generate_with_functions(self, prompt, net) ==
    LET req == generate_with_functions_request(self, prompt)
    IN  generate_content(self, req, net) @@ [request |-> req]

\* push_function_result authoring the message as the model's.
push_function_result_as_model(conv, function_name, res) ==
    Append(conv, Content("model",
        <<FunctionResponsePart(FunctionResponse(function_name, res))>>))

\* continue_with_function_result, the push onto the caller's conversation.
push_function_result(conv, function_name, res) ==
    Append(conv, Content("user",
        <<FunctionResponsePart(FunctionResponse(function_name, res))>>))

continue_request(self, conv) ==
    [system_instruction |-> self.system_instruction,
     contents |-> conv,
     tools |-> Some(<<Tool(self.functions)>>)]

\* continue_with_function_result taking its message back when the call fails.
continue_with_function_result_rollback(self, conv, function_name, res, net) ==
    LET pushed == push_function_result(conv, function_name, res)
        req == continue_request(self, pushed)
        g == generate_content(self, req, net)
    IN  g @@ [request |-> req, conversation |-> IF g.res.ok THEN pushed ELSE conv]

\* The record returned also holds the conversation as the call leaves it.
continue_with_function_result(self, conv, function_name, res, net) ==
    LET pushed == push_function_result(conv, function_name, res)
        req == continue_request(self, pushed)
    IN  generate_content(self, req, net)
        @@ [request |-> req, conversation |-> pushed]

\* ------------------------------------------------------------------ inputs
ApiKeys == {"key"}

Prompts == {"prompt"}

FunctionNames == {"get_file_content", "other"}

\* main's system instruction (its four text parts, two kept).
MainInstruction ==
    SystemInstruction(<<TextPart("administrator"), TextPart("use get_file_content")>>)

\* main's declaration of get_file_content.
GetFileContentDecl ==
    [name |-> "get_file_content",
     description |-> "Get the contents of the specified file",
     parameters |-> [param_type |-> "object",
                     properties |-> [file_path |-> [property_type |-> "string",
                                                    description |-> "The path to the file",
                                                    enum_values |-> None]],
                     required |-> <<"file_path">>]]

\* A declaration a caller can equally pass: it requires a property it does
\* not declare.
UndeclaredRequiredDecl ==
    [GetFileContentDecl EXCEPT !.parameters.required = <<"file_path", "mode">>]

Declarations == {<<GetFileContentDecl>>, <<UndeclaredRequiredDecl>>}

Clients ==
    {with_api_key(k) : k \in ApiKeys}
    \cup {new(Some(k)).val : k \in ApiKeys}
    \cup {new_with_instructions(k, MainInstruction, fns) :
              k \in ApiKeys, fns \in Declarations}

\* The serde_json::json! values main passes as the function's result.
FileSuccess ==
    JObj([result |-> JStr("success"), file_content |-> JStr("127.0.0.1 localhost")])

FileFailure ==
    JObj([result |-> JStr("failure"), error |-> JStr("File error: Failed to read file")])

FileResults == {FileSuccess, FileFailure}

\* The (function name, result) pairs handed to continue_with_function_result.
FunctionResults == {<<"get_file_content", FileSuccess>>, <<"other", FileFailure>>}

JsonArgs == {JObj([file_path |-> JStr("/etc/hosts")]), JObj(<<>>)}

WireText == JObj([text |-> JStr("ok")])

WireCall ==
    JObj([functionCall |-> SerFunctionCall(
              FunctionCall("get_file_content", JObj([file_path |-> JStr("/etc/hosts")])))])

WireCandidate(parts) == JObj([content |-> JObj([parts |-> JArr(parts)])])

LaterCandidate ==
    JObj([content |-> JObj([parts |-> JArr(<<JObj([text |-> JStr("later")])>>)]),
          finishReason |-> JStr("STOP")])

ResponseDocs ==
    {JObj([candidates |-> JArr(<<>>)])}
    \cup {JObj([candidates |-> JArr(<<WireCandidate(ps)>> \o later)]) :
              ps \in SeqsUpTo({WireText, WireCall}, MaxParts),
              later \in {<<>>, <<LaterCandidate>>}}

UndecodableBodies ==
    {NotJson,
     JObj(<<>>),
     JObj([candidates |-> JArr(<<WireCandidate(<<JObj(<<>>)>>)>>)])}

NetOutcomes ==
    {NetSendFails, NetReadFails}
    \cup {NetDelivers(b) : b \in ResponseDocs \cup UndecodableBodies}

\* -------------------------------------------------------- engine actions
NoValue == [some |-> FALSE]

Init ==
    /\ client \in Clients
    /\ conversation = <<>>
    /\ op = "none"
    /\ wire = NoValue
    /\ request = NoValue
    /\ url = <<>>
    /\ body = NotJson
    /\ sends = 0
    /\ decodes = 0
    /\ result = NoValue
    /\ call = NoValue
    /\ codecOp = "none"
    /\ codecIn = NoValue
    /\ codecOut = NoValue

Returned(name, net, r) ==
    /\ op' = name
    /\ wire' = net
    /\ request' = r.request
    /\ url' = r.url
    /\ body' = r.body
    /\ sends' = r.sends
    /\ decodes' = r.decodes
    /\ result' = r.res

GenerateText ==
    \E prompt \in Prompts, net \in NetOutcomes :
        /\ Returned("generate_text", net, generate_text(client, prompt, net))
        /\ call' = [prompt |-> prompt]
        /\ UNCHANGED <<client, conversation, codecVars>>

GenerateWithFunctions ==
    \E prompt \in Prompts, net \in NetOutcomes :
        /\ Returned("generate_with_functions", net, generate_with_functions(client, prompt, net))
        /\ call' = [prompt |-> prompt]
        /\ UNCHANGED <<client, conversation, codecVars>>

\* main: for a FunctionCall part of the first candidate, the caller builds the
\* conversation of the prompt and the model's function call.
BuildConversation ==
    /\ op = "generate_with_functions"
    /\ result.ok
    /\ Len(result.val.candidates) > 0
    /\ conversation = <<>>
    /\ MaxConv >= 2
    /\ \E i \in 1..Len(result.val.candidates[1].content.parts) :
          LET part == result.val.candidates[1].content.parts[i]
          IN  /\ part.kind = "FunctionCall"
              /\ conversation' =
                    <<Content("user", <<TextPart(request.contents[1].parts[1].text)>>),
                      Content("model", <<FunctionCallPart(part.function_call)>>)>>
    /\ op' = "build_conversation"
    /\ UNCHANGED <<client, wire, request, url, body, sends, decodes, result, call, codecVars>>

ContinueWithFunctionResult ==
    /\ Len(conversation) < MaxConv
    /\ \E fr \in FunctionResults, net \in NetOutcomes :
          LET r == continue_with_function_result(client, conversation, fr[1], fr[2], net)
          IN  /\ Returned("continue_with_function_result", net, r)
              /\ conversation' = r.conversation
              /\ call' = [function_name |-> fr[1], result |-> fr[2]]
    /\ UNCHANGED <<client, codecVars>>

Next ==
    \/ GenerateText
    \/ GenerateWithFunctions
    \/ BuildConversation
    \/ ContinueWithFunctionResult

Spec == Init /\ [][Next]_vars

\* ---------------------------------------------------- codec specification
\* The codec's pure functions applied to inputs drawn from bounded sets.
Parts ==
    {TextPart(s) : s \in {"ok", "hi"}}
    \cup {FunctionCallPart(FunctionCall(n, a)) : n \in FunctionNames, a \in JsonArgs}
    \cup {FunctionResponsePart(FunctionResponse(n, r)) : n \in FunctionNames, r \in FileResults}

PartKeys == {"text", "functionCall", "functionResponse"}

\* The values a Part-shaped object may hold under each key: well-typed ones
\* and ones the variant cannot take.
PartKeyValues(k) ==
    CASE k = "text" -> {JStr("ok"), JStr("hi"), JNum(1), JNull}
      [] k = "functionCall" ->
            {SerFunctionCall(FunctionCall(n, a)) : n \in FunctionNames, a \in JsonArgs}
            \cup {JStr("get_file_content"), JObj([name |-> JStr("get_file_content")])}
      [] k = "functionResponse" ->
            {SerFunctionResponse(FunctionResponse("get_file_content", r)) : r \in FileResults}

AllPartValues == UNION {PartKeyValues(k) : k \in PartKeys}

PartShapedObjects ==
    {JObj(f) : f \in UNION {{g \in [K -> AllPartValues] : \A k \in K : g[k] \in PartKeyValues(k)} :
                               K \in SUBSET PartKeys}}

CodecInit ==
    /\ Init
    /\ client = with_api_key("key")

EncodePart ==
    \E p \in Parts :
        /\ codecOp' = "encode"
        /\ codecIn' = p
        /\ codecOut' = SerPart(p)
        /\ UNCHANGED engineVars

DecodePart ==
    \E v \in PartShapedObjects :
        /\ codecOp' = "decode"
        /\ codecIn' = v
        /\ codecOut' = DeResponsePart(v)
        /\ UNCHANGED engineVars

RoundTripPart ==
    \E p \in Parts :
        /\ codecOp' = "roundtrip"
        /\ codecIn' = p
        /\ codecOut' = DeResponsePart(SerPart(p))
        /\ UNCHANGED engineVars

CodecNext ==
    \/ EncodePart
    \/ DecodePart
    \/ RoundTripPart

CodecSpec == CodecInit /\ [][CodecNext]_vars

\* -------------------------------------------------------------- properties
EngineOps == {"generate_text", "generate_with_functions", "continue_with_function_result"}

Delivered == op \in EngineOps /\ wire.send /\ wire.read

IsPrefix(a, b) == Len(a) <= Len(b) /\ SubSeq(b, 1, Len(a)) = a

\* C1: continue_with_function_result on a conversation of n messages appends
\* exactly one message, of role user, whose only part is the function result
\* it was given, and the request handed to the transport carries the n prior
\* messages followed by the new one, in order.
C1_ContinueAppendsAndResends ==
    [][op' = "continue_with_function_result" =>
        /\ conversation' = Append(conversation,
               Content("user", <<FunctionResponsePart(
                   FunctionResponse(call'.function_name, call'.result))>>))
        /\ request'.contents = conversation'
        /\ Has(body', "contents")
        /\ body'.obj.contents =
               JArr([i \in 1..Len(conversation') |-> SerContent(conversation'[i])])
        /\ sends' = 1]_vars

C1_Witness ==
    /\ op = "continue_with_function_result"
    /\ Len(conversation) = 3
    /\ conversation[1].role = "user"
    /\ conversation[2].role = "model"
    /\ call.result = FileSuccess
    /\ result.ok

\* C2: when the engine has no tool declarations configured, the request body
\* of every operation has no tools key.
C2_NoToolsKeyWithoutTools ==
    (op \in EngineOps /\ client.functions = <<>>) => ~Has(body, "tools")

\* C3: decoding a Part-shaped object succeeds only when exactly one of the
\* keys text, functionCall, functionResponse is present.
C3_DecodeNeedsExactlyOneKey ==
    (codecOp = "decode" /\ codecOut.ok) =>
        Cardinality(DOMAIN codecIn.obj \cap PartKeys) = 1

\* C4: encoding a part of any of the three variants and decoding the encoded
\* form yields the same variant with equal fields.
C4_RoundTrip ==
    codecOp = "roundtrip" => codecOut = Ok(codecIn)

\* C5: generate_text returns the text of the first part of the first candidate
\* when that part is a text, and fails with ApiError for every other decodable
\* response; a text in a later part or candidate is never returned.
C5_FirstTextOrApiError ==
    (op = "generate_text" /\ Delivered /\ wire.text \in ResponseDocs) =>
        LET cands == wire.text.obj.candidates.arr
            parts == cands[1].obj.content.obj.parts.arr
        IN  IF Len(cands) > 0 /\ Len(parts) > 0 /\ Has(parts[1], "text")
            THEN result = Ok(parts[1].obj.text.str)
            ELSE ~result.ok /\ result.err = "ApiError"

C5_Witness ==
    /\ op = "generate_text"
    /\ Delivered
    /\ wire.text = JObj([candidates |->
           JArr(<<WireCandidate(<<WireCall, WireText>>), LaterCandidate>>)])
    /\ ~result.ok
    /\ result.err = "ApiError"

\* C6: the conversation only ever grows by appending; generate_text and
\* generate_with_functions leave it as it is, and a failing
\* continue_with_function_result changes it by exactly the one function-result
\* message it appended before sending.
C6_AppendOnlyOnFailure ==
    [][/\ IsPrefix(conversation, conversation')
       /\ op' \in {"generate_text", "generate_with_functions"} =>
              conversation' = conversation
       /\ (op' = "continue_with_function_result" /\ ~result'.ok) =>
              conversation' = Append(conversation,
                  Content("user", <<FunctionResponsePart(
                      FunctionResponse(call'.function_name, call'.result))>>))]_vars

C6_Witness ==
    /\ op = "continue_with_function_result"
    /\ ~result.ok
    /\ result.err = "NetworkError"
    /\ Len(conversation) = 3
    /\ conversation[2].role = "model"

\* C7: every operation makes exactly one transport round trip; a transport
\* failure is returned as NetworkError without any decoding, and an
\* undecodable body as ParseError after one decoding, with no second send.
C7_SingleAttempt ==
    op \in EngineOps =>
        /\ sends = 1
        /\ ~wire.send =>
               result = Err("NetworkError", "Request failed") /\ decodes = 0
        /\ (wire.send /\ ~wire.read) =>
               result = Err("NetworkError", "Response read failed") /\ decodes = 0
        /\ Delivered => decodes = 1
        /\ (Delivered /\ wire.text \in UndecodableBodies) =>
               result = Err("ParseError", "Deserialization error")

C7_Witness ==
    /\ op = "generate_with_functions"
    /\ ~wire.send
    /\ ~result.ok
    /\ sends = 1
    /\ decodes = 0

\* C8: the system instruction the client was constructed with is never
\* changed and is the system instruction of every request, of every operation.
C8_SystemInstructionOnEveryRequest ==
    [][/\ client'.system_instruction = client.system_instruction
       /\ op' \in EngineOps =>
              request'.system_instruction = client'.system_instruction]_vars

\* C9: every declaration the constructed client holds, and so every
\* declaration a request carries, requires only properties it declares.
C9_RequiredAreDeclared ==
    /\ \A i \in 1..Len(client.functions) :
          \A r \in 1..Len(client.functions[i].parameters.required) :
              client.functions[i].parameters.required[r]
                  \in DOMAIN client.functions[i].parameters.properties
    /\ (op \in EngineOps /\ request.tools.some) =>
          \A t \in 1..Len(request.tools.val) :
              \A i \in 1..Len(request.tools.val[t].function_declarations) :
                  LET params == request.tools.val[t].function_declarations[i].parameters
                  IN  \A r \in 1..Len(params.required) :
                          params.required[r] \in DOMAIN params.properties

\* C10: the keys of every encoded request are those of the wire schema:
\* systemInstruction, contents and (optionally) tools at the top, and
\* functionDeclarations in each tool; every encoded part holds exactly one of
\* text, functionCall, functionResponse.
C10_WireKeyNames ==
    op \in EngineOps =>
        /\ {"systemInstruction", "contents"} \subseteq DOMAIN body.obj
        /\ DOMAIN body.obj \subseteq {"systemInstruction", "contents", "tools"}
        /\ Has(body, "tools") =>
               \A t \in 1..Len(body.obj.tools.arr) :
                   DOMAIN body.obj.tools.arr[t].obj = {"functionDeclarations"}
        /\ Has(body, "contents") =>
               \A m \in 1..Len(body.obj.contents.arr) :
                   \A j \in 1..Len(body.obj.contents.arr[m].obj.parts.arr) :
                       Cardinality(DOMAIN body.obj.contents.arr[m].obj.parts.arr[j].obj
                                   \cap PartKeys) = 1

====
